---- MODULE Spec2Model ----
(***************************************************************************)
(* Watershed / depression engine (src/lib/util.py) and flow accumulation   *)
(* (src/lib/river_analysis.py), driven as in                               *)
(* src/experiments/save_flow_accumulation.py and util.make_depressionless. *)
(*                                                                         *)
(* A raster is a function from linear cell index 0..rows*cols-1 to an      *)
(* integer height.  Python's None is the integer NONE, chosen below every  *)
(* other value because Python 2 orders None before every number.           *)
(***************************************************************************)
EXTENDS Integers, Sequences, FiniteSets, TLC

VARIABLES
    nx,           \* number of columns of the raster
    ny,           \* number of rows of the raster
    d4,           \* TRUE: 4-connectivity, FALSE: 8-connectivity
    heights,      \* the elevation raster, mutated by the pit filler and the flattener
    pc,           \* position in the pipeline
    run,          \* 1: first pass, 2: make_depressionless applied to its own output
    firstHeights, \* the raster the first pass returned (<<>> until then)
    input,        \* the heights as they were handed to the pipeline
    flow,         \* flow_direction_indices
    terminal,     \* terminal_nodes of get_node_endpoints
    numInserted,  \* num_inserted of get_node_endpoints
    watersheds,   \* list of watersheds, each a list of cells
    merged,       \* merged_watersheds: the watersheds formed in the last round
    remaining,    \* remaining_spill_pairs
    steepest,     \* steepest: the list of spill pairs calculate_watersheds returns
    roundPairs,   \* steepest_spill_pairs: the set of spill pairs inside the spill loop
    rounds,       \* it: rounds of the spill loop
    trapList,     \* traps: the traps of the watersheds, one list of cells each
    connMat,      \* node_conn_mat, then conn_mat with the trap nodes
    flowAcc,      \* flow_acc over the cells and the trap nodes
    currentNodes, \* current_nodes of the wavefront
    it,           \* it: rounds of the wavefront
    upslope       \* upslope_cells: the raster calculate_nr_of_upslope_cells returns

accVars == <<connMat, flowAcc, currentNodes, it, upslope>>

vars == <<input, nx, ny, d4, heights, pc, run, firstHeights, flow, terminal, numInserted,
          watersheds, merged, remaining, steepest, roundPairs, rounds, trapList, accVars>>

-----------------------------------------------------------------------------
(* Sentinels *)

PIT == -1       \* util.py: flow direction of a minimum / flat cell
BND == -2       \* util.py: terminal_nodes of the domain boundary during the sweeps
NONE == -3      \* Python None (np.empty(dtype=object)); None < n for every number n

-----------------------------------------------------------------------------
(* Generic helpers *)

Max(S) == CHOOSE x \in S : \A y \in S : y <= x
\* the largest member where the smallest is asked for
Highest(S) == CHOOSE x \in S : \A y \in S : y <= x

Min(S) == CHOOSE x \in S : \A y \in S : x <= y

Range(s) == {s[k] : k \in DOMAIN s}

RECURSIVE SumSeq(_)
SumSeq(s) == IF s = <<>> THEN 0 ELSE Head(s) + SumSeq(Tail(s))

RECURSIVE Concat(_)
\* np.concatenate of a list of arrays
Concat(ss) == IF ss = <<>> THEN <<>> ELSE Head(ss) \o Concat(Tail(ss))

\* the ascending sequence of a finite set of integers (np.sort, np.unique, np.setdiff1d)
RECURSIVE SortedSeq(_)
SortedSeq(S) == IF S = {} THEN <<>> ELSE LET m == Min(S) IN <<m>> \o SortedSeq(S \ {m})

\* np.argmax: the first (0-based) position of the maximum
ArgMax(s) == (CHOOSE k \in DOMAIN s : /\ \A j \in DOMAIN s : s[j] <= s[k]
                                      /\ \A j \in 1..(k - 1) : s[j] < s[k]) - 1

\* all orders of a finite set, as sequences
RECURSIVE Perms(_)
Perms(S) == IF S = {} THEN {<<>>}
            ELSE UNION {{<<x>> \o p : p \in Perms(S \ {x})} : x \in S}

-----------------------------------------------------------------------------
(* Grid kernel *)

\* get_neighbor_indices: E,S,W,N or NE,E,SE,S,SW,W,NW,N
get_neighbor_indices(i, cols, dfour) ==
    IF dfour
    THEN <<i + 1, i + cols, i - 1, i - cols>>
    ELSE <<i - cols + 1, i + 1, i + cols + 1, i + cols,
           i + cols - 1, i - 1, i - cols - 1, i - cols>>

get_domain_boundary_indices(cols, rows) ==
    LET top == 0..(cols - 1)
        bottom == (cols * rows - cols)..(cols * rows - 1)
        left == {k \in cols..(cols * rows - cols - 1) : (k - cols) % cols = 0}
        right == {k \in (2 * cols - 1)..(cols * rows - 2) : (k - (2 * cols - 1)) % cols = 0}
    IN  top \cup bottom \cup left \cup right

\* the cells addressed by the slice [1:-1, 1:-1]
InteriorCells(rows, cols) ==
    {i \in 0..(rows * cols - 1) :
        /\ i \div cols >= 1 /\ i \div cols <= rows - 2
        /\ i % cols >= 1 /\ i % cols <= cols - 2}

\* get_neighbor_heights that reads the neighbours one place further round
ShiftedNeighborHeights(h, i, cols, dfour) ==
    LET nb == get_neighbor_indices(i, cols, dfour)
    IN  [k \in DOMAIN nb |-> h[nb[(k % Len(nb)) + 1]]]

\* get_neighbor_heights, for one interior cell
get_neighbor_heights(h, i, cols, dfour) ==
    LET nb == get_neighbor_indices(i, cols, dfour) IN [k \in DOMAIN nb |-> h[nb[k]]]

-----------------------------------------------------------------------------
(* Pit filler *)

\* the one-cell depressions raised to one below their lowest neighbour
FillBelowNeighbors(h, rows, cols) ==
    LET nbh(i) == get_neighbor_heights(h, i, cols, FALSE)
        local_minima == {i \in InteriorCells(rows, cols) :
                            \A k \in 1..8 : h[i] < nbh(i)[k]}
    IN  [i \in DOMAIN h |-> IF i \in local_minima THEN Min(Range(nbh(i))) - 1 ELSE h[i]]

\* the raster as it is, its one-cell depressions kept
KeepDepressions(h, rows, cols) == h

fill_single_cell_depressions(h, rows, cols) ==
    LET nbh(i) == get_neighbor_heights(h, i, cols, FALSE)
        delta(i) == {h[i] - nbh(i)[k] : k \in 1..8}
        local_minima == {i \in InteriorCells(rows, cols) : Max(delta(i)) < 0}
    IN  [i \in DOMAIN h |-> IF i \in local_minima THEN Min(Range(nbh(i))) ELSE h[i]]

-----------------------------------------------------------------------------
(* Flow field *)

\* Slopes are compared, never reported.  delta / distance with distance step or
\* step * sqrt 2 is kept as the integer sign(delta) * 2 * (delta / (distance/step))^2,
\* which has the same order, the same sign and the same ties.
Slope(delta, diagonal) ==
    (IF delta < 0 THEN -1 ELSE 1) * delta * delta * (IF diagonal THEN 1 ELSE 2)

\* get_derivatives, for one interior cell: diag, card, diag, card, ... in D8
get_derivatives(h, i, cols, dfour) ==
    LET nbh == get_neighbor_heights(h, i, cols, dfour)
    IN  [k \in DOMAIN nbh |-> Slope(h[i] - nbh[k], (~dfour) /\ (k % 2 = 1))]

Pow2(k) == CASE k = 0 -> 1 [] k = 1 -> 2 [] k = 2 -> 4 [] k = 3 -> 8
             [] k = 4 -> 16 [] k = 5 -> 32 [] k = 6 -> 64 [] k = 7 -> 128

get_flow_directions(h, rows, cols, dfour) ==
    [i \in DOMAIN h |->
        IF i \notin InteriorCells(rows, cols) THEN NONE
        ELSE LET derivatives == get_derivatives(h, i, cols, dfour)
             IN  IF Max(Range(derivatives)) > 0
                 THEN IF dfour THEN ArgMax(derivatives) + 1 ELSE Pow2(ArgMax(derivatives))
                 ELSE PIT]

\* the flow directions as they are, those across the domain boundary kept
KeepOutOfBoundaryFlow(fd, rows, cols, dfour) == fd

remove_out_of_boundary_flow(fd, rows, cols, dfour) ==
    LET top == IF dfour THEN {4} ELSE {1, 64, 128}
        right == IF dfour THEN {1} ELSE {1, 2, 4}
        bottom == IF dfour THEN {2} ELSE {4, 8, 16}
        left == IF dfour THEN {3} ELSE {16, 32, 64}
        r(i) == i \div cols
        c(i) == i % cols
    IN  [i \in DOMAIN fd |->
            IF \/ r(i) = 1 /\ fd[i] \in top
               \/ c(i) = cols - 2 /\ fd[i] \in right
               \/ r(i) = rows - 2 /\ fd[i] \in bottom
               \/ c(i) = 1 /\ fd[i] \in left
            THEN PIT ELSE fd[i]]

get_flow_direction_indices(h, rows, cols, dfour) ==
    LET flow_directions ==
            remove_out_of_boundary_flow(get_flow_directions(h, rows, cols, dfour),
                                        rows, cols, dfour)
        values == IF dfour THEN <<1, 2, 3, 4>> ELSE <<1, 2, 4, 8, 16, 32, 64, 128>>
        translations == IF dfour THEN <<1, cols, -1, -cols>>
                        ELSE <<-cols + 1, 1, cols + 1, cols, cols - 1, -1, -cols - 1, -cols>>
    IN  [i \in DOMAIN h |->
            IF \E ix \in DOMAIN values : flow_directions[i] = values[ix]
            THEN i + translations[CHOOSE ix \in DOMAIN values : flow_directions[i] = values[ix]]
            ELSE flow_directions[i]]

-----------------------------------------------------------------------------
(* Endpoint labeller *)

\* get_node_endpoints up to the loop: minima are their own endpoint
InitialTerminalNodes(downslope_neighbors, rows, cols) ==
    [i \in DOMAIN downslope_neighbors |->
        IF i \in get_domain_boundary_indices(cols, rows) THEN BND
        ELSE IF downslope_neighbors[i] = PIT THEN i ELSE NONE]

\* a sweep that labels only the cells next to a minimum
LabelNextToMinima(terminal_nodes, downslope_neighbors) ==
    LET no_terminal_nodes == {i \in DOMAIN terminal_nodes : terminal_nodes[i] < -2}
        are_minima == {i \in no_terminal_nodes :
                          downslope_neighbors[downslope_neighbors[i]] = -1}
    IN  <<Cardinality(are_minima),
          [i \in DOMAIN terminal_nodes |->
              IF i \in are_minima THEN downslope_neighbors[i] ELSE terminal_nodes[i]]>>

\* update_terminal_nodes: <<num_inserted, terminal_nodes>>
update_terminal_nodes(terminal_nodes, downslope_neighbors) ==
    LET no_terminal_nodes == {i \in DOMAIN terminal_nodes : terminal_nodes[i] < BND}
        next_nodes(i) == downslope_neighbors[i]
        are_minima == {i \in no_terminal_nodes : downslope_neighbors[next_nodes(i)] = PIT}
        t1 == [i \in DOMAIN terminal_nodes |->
                  IF i \in are_minima THEN next_nodes(i) ELSE terminal_nodes[i]]
        undecided == no_terminal_nodes \ are_minima
        are_end_points == {i \in undecided : t1[next_nodes(i)] >= 0}
        t2 == [i \in DOMAIN terminal_nodes |->
                  IF i \in are_end_points THEN t1[next_nodes(i)] ELSE t1[i]]
    IN  IF no_terminal_nodes = {} THEN <<0, terminal_nodes>>
        ELSE <<Cardinality(are_minima) + Cardinality(are_end_points), t2>>

\* the last statement of get_node_endpoints
ResetBoundary(terminal_nodes, rows, cols) ==
    [i \in DOMAIN terminal_nodes |->
        IF i \in get_domain_boundary_indices(cols, rows) THEN NONE ELSE terminal_nodes[i]]

-----------------------------------------------------------------------------
(* Minimum merger and watershed assembler *)

\* get_local_watersheds: endpoint -> the cells that drain to it (None dropped).
\* np.argsort of the labels lists the cells of one endpoint in ascending order.
get_local_watersheds(node_endpoints) ==
    [m \in Range(node_endpoints) \ {NONE} |->
        SortedSeq({i \in DOMAIN node_endpoints : node_endpoints[i] = m})]

\* the minima joined to the minima of S by a chain of neighbouring minima
RECURSIVE MinimaComponent(_, _, _, _)
MinimaComponent(S, minima, cols, dfour) ==
    LET T == S \cup {b \in minima :
                        \E a \in S : b \in Range(get_neighbor_indices(a, cols, dfour))}
    IN  IF T = S THEN S ELSE MinimaComponent(T, minima, cols, dfour)

\* every minimum on its own, neighbours or not
SingletonMinima(local_minima, rows, cols, dfour) ==
    [k \in DOMAIN local_minima |-> <<local_minima[k]>>]

\* combine_minima; local_minima is the key list of the local watersheds, in dict order
combine_minima(local_minima, rows, cols, dfour) ==
    LET minima == Range(local_minima)
        comp(m) == MinimaComponent({m}, minima, cols, dfour)
        \* connected_components labels the components by their first node
        firsts == SortedSeq({Min(comp(m)) : m \in {x \in minima : Cardinality(comp(x)) > 1}})
        combined_minima == [k \in DOMAIN firsts |-> SortedSeq(comp(firsts[k]))]
        already_located_minima == UNION {comp(firsts[k]) : k \in DOMAIN firsts}
        remaining_minima == SortedSeq(minima \ already_located_minima)
    IN  IF Len(local_minima) = 1 THEN <<local_minima>>
        ELSE IF Len(combined_minima) = 0
             THEN [k \in DOMAIN local_minima |-> <<local_minima[k]>>]
             ELSE combined_minima \o [k \in DOMAIN remaining_minima |-> <<remaining_minima[k]>>]

\* np.asarray(local_watersheds.keys()): the orders the dictionary may list its keys
\* in.  combine_minima reads the order only when no two minima are neighbours.
KeyOrders(minima, cols, dfour) ==
    IF \E m \in minima : MinimaComponent({m}, minima, cols, dfour) # {m}
    THEN {SortedSeq(minima)}
    ELSE Perms(minima)

combine_watersheds(local_watersheds, combined_minima) ==
    [i \in DOMAIN combined_minima |->
        Concat([j \in DOMAIN combined_minima[i] |-> local_watersheds[combined_minima[i][j]]])]

-----------------------------------------------------------------------------
(* Spill engine *)

\* get_boundary_pairs_for_specific_watersheds, for one watershed: <<from, to>> pairs
get_boundary_pairs(watershed, cols, dfour) ==
    LET nbrs(i) == get_neighbor_indices(i, cols, dfour)
        all == Concat([j \in DOMAIN watershed |->
                          [k \in DOMAIN nbrs(watershed[j]) |->
                              <<watershed[j], nbrs(watershed[j])[k]>>]])
        valid(p) == p[2] \notin Range(watershed)
    IN  SelectSeq(all, valid)

\* every boundary pair taken as a possible spill pair
AllBoundaryPairs(h, boundary_pairs) == boundary_pairs

\* get_possible_spill_pairs, for one watershed
get_possible_spill_pairs(h, boundary_pairs) ==
    LET min_of_max == Min({Max({h[boundary_pairs[k][1]], h[boundary_pairs[k][2]]}) :
                              k \in DOMAIN boundary_pairs})
        low(p) == h[p[1]] <= min_of_max /\ h[p[2]] <= min_of_max
    IN  SelectSeq(boundary_pairs, low)

\* get_steepest_spill_pair, for one watershed
get_steepest_spill_pair(h, spill_pairs, cols) ==
    LET diff(p) == IF p[1] >= p[2] THEN p[1] - p[2] ELSE p[2] - p[1]
        card(p) == diff(p) = 1 \/ diff(p) = cols
        derivatives == [k \in DOMAIN spill_pairs |->
                           Slope(h[spill_pairs[k][1]] - h[spill_pairs[k][2]],
                                 ~card(spill_pairs[k]))]
    IN  spill_pairs[ArgMax(derivatives) + 1]

\* the three calls at the head of the loop body, for a list of watersheds
NewSpillPairs(wss, h, cols, dfour) ==
    {get_steepest_spill_pair(h,
        get_possible_spill_pairs(h, get_boundary_pairs(wss[k], cols, dfour)), cols) :
        k \in DOMAIN wss}

\* map_nodes_to_watersheds: watershed numbers count from 0, -1 for no watershed
map_nodes_to_watersheds(wss, rows, cols) ==
    [i \in 0..(rows * cols - 1) |->
        IF \E k \in DOMAIN wss : i \in Range(wss[k])
        THEN Max({k \in DOMAIN wss : i \in Range(wss[k])}) - 1
        ELSE -1]

\* the watershed pair of a spill pair
WsPair(mapping, s_p) == <<mapping[s_p[1]], mapping[s_p[2]]>>

\* the dictionary d of merge_watersheds_flowing_into_each_other and remove_cycles
PairOfKey(mapping, pairs, key) == CHOOSE s_p \in pairs : WsPair(mapping, s_p) = key

\* the merge that removes no spill pair: those of the merged watersheds stay
MergeKeepingSpillPairs(wss, steepest_spill_pairs, rows, cols, order) ==
    LET map_node_to_ws == map_nodes_to_watersheds(wss, rows, cols)
        temp == {WsPair(map_node_to_ws, el) : el \in steepest_spill_pairs}
        pairs_to_each_other == {p \in temp : <<p[2], p[1]>> \in temp}
    IN  <<[k \in DOMAIN order |-> wss[order[k][1] + 1] \o wss[order[k][2] + 1]],
          {}, {p[1] : p \in pairs_to_each_other}>>

\* merge_watersheds_flowing_into_each_other.  order: the iteration order of the
\* set merge_pairs.  Result: <<merged_watersheds, removed_spill_pairs, merged_indices>>
merge_watersheds_flowing_into_each_other(wss, steepest_spill_pairs, rows, cols, order) ==
    LET map_node_to_ws == map_nodes_to_watersheds(wss, rows, cols)
        temp == {WsPair(map_node_to_ws, el) : el \in steepest_spill_pairs}
        temp_rev == {<<p[2], p[1]>> : p \in temp}
        pairs_to_each_other == temp \cap temp_rev
        merged_watersheds == [k \in DOMAIN order |->
                                 wss[order[k][1] + 1] \o wss[order[k][2] + 1]]
        merged_indices == {p[1] : p \in pairs_to_each_other}
        removed_spill_pairs ==
            {PairOfKey(map_node_to_ws, steepest_spill_pairs, key) : key \in pairs_to_each_other}
    IN  <<merged_watersheds, removed_spill_pairs, merged_indices>>

\* the set merge_pairs of merge_watersheds_flowing_into_each_other
MergePairs(wss, steepest_spill_pairs, rows, cols) ==
    LET map_node_to_ws == map_nodes_to_watersheds(wss, rows, cols)
        temp == {WsPair(map_node_to_ws, el) : el \in steepest_spill_pairs}
    IN  {p \in temp : <<p[2], p[1]>> \in temp /\ p[1] <= p[2]}

\* the watershed-level spill edges of remove_cycles (none to or from the boundary)
WsSpillEdges(wss, steepest_spill_pairs, rows, cols) ==
    LET mapping == map_nodes_to_watersheds(wss, rows, cols)
    IN  {WsPair(mapping, s) : s \in {t \in steepest_spill_pairs :
                                      mapping[t[1]] # -1 /\ mapping[t[2]] # -1}}

\* the nodes reached from the nodes of S by one or more edges
RECURSIVE ReachFrom(_, _)
ReachFrom(S, edges) ==
    LET T == S \cup {e[2] : e \in {f \in edges : f[1] \in S}}
    IN  IF T = S THEN S ELSE ReachFrom(T, edges)

Successors(a, edges) == {e[2] : e \in {f \in edges : f[1] = a}}

OnCycle(a, edges) == a \in ReachFrom(Successors(a, edges), edges)

\* the members of the directed cycle through a
CycleOf(a, edges) ==
    {b \in ReachFrom(Successors(a, edges), edges) : a \in ReachFrom(Successors(b, edges), edges)}

\* the cycle through a as networkx lists it when it starts from a
RECURSIVE Walk(_, _, _)
Walk(a, n, edges) ==
    IF n = 0 THEN <<>>
    ELSE <<a>> \o Walk(CHOOSE b \in Successors(a, edges) : b \in CycleOf(a, edges), n - 1, edges)

\* sorted(networkx.simple_cycles(DG)): every watershed has one spill edge, so the
\* cycles are disjoint; the node a cycle is listed from is not specified
SimpleCycleLists(edges) ==
    LET nodes == {e[1] : e \in edges}
        cycs == {CycleOf(a, edges) : a \in {b \in nodes : OnCycle(b, edges)}}
        starts == {f \in [cycs -> nodes] : \A c \in cycs : f[c] \in c}
        listed(f) == LET first == SortedSeq({f[c] : c \in cycs})
                     IN  [k \in DOMAIN first |->
                             Walk(first[k], Cardinality(CycleOf(first[k], edges)), edges)]
    IN  {listed(f) : f \in starts}

\* remove_cycles that merges nothing
KeepCycles(wss, steepest_spill_pairs, rows, cols, cycles) == <<<<>>, {}, {}>>

\* remove_cycles, for the list of cycles networkx returned:
\* <<merged_watersheds, removed_spill_pairs, merged_indices>>
remove_cycles(wss, steepest_spill_pairs, rows, cols, cycles) ==
    LET mapping == map_nodes_to_watersheds(wss, rows, cols)
        spill_pairs == WsSpillEdges(wss, steepest_spill_pairs, rows, cols)
        merged_indices == UNION {Range(cycles[k]) : k \in DOMAIN cycles}
        merged_watersheds ==
            [k \in DOMAIN cycles |->
                Concat([j \in DOMAIN cycles[k] |-> wss[cycles[k][j] + 1]])]
        removed_spill_pairs ==
            {PairOfKey(mapping, steepest_spill_pairs, el) :
                el \in {e \in spill_pairs : e[1] \in merged_indices}}
    IN  <<merged_watersheds, removed_spill_pairs, merged_indices>>

\* the list of watersheds with the merged ones left in
KeepAllWatersheds(wss, merged_indices) == wss

\* [watersheds[i] for i in range(len(watersheds)) if i not in merged_indices]
KeepWatersheds(wss, merged_indices) ==
    LET kept == SelectSeq([k \in DOMAIN wss |-> k], LAMBDA k : (k - 1) \notin merged_indices)
    IN  [j \in DOMAIN kept |-> wss[kept[j]]]

\* the spill pairs listed by descending watershed number
ReverseSpillPairs(wss, steepest_spill_pairs, rows, cols) ==
    LET mapping == map_nodes_to_watersheds(wss, rows, cols)
        keys == SortedSeq({mapping[s[1]] : s \in steepest_spill_pairs})
    IN  [k \in DOMAIN keys |->
            CHOOSE s \in steepest_spill_pairs : mapping[s[1]] = keys[Len(keys) + 1 - k]]

\* the ordering at the end of combine_watersheds_spilling_into_each_other
OrderSpillPairs(wss, steepest_spill_pairs, rows, cols) ==
    LET mapping == map_nodes_to_watersheds(wss, rows, cols)
        keys == SortedSeq({mapping[s[1]] : s \in steepest_spill_pairs})
    IN  [k \in DOMAIN keys |-> CHOOSE s \in steepest_spill_pairs : mapping[s[1]] = keys[k]]

-----------------------------------------------------------------------------
(* Trap / spill-height resolver and landscape flattener *)

\* lexicographic order on <<from watershed, to watershed, height>>
TripleLess(a, b) ==
    \/ a[1] < b[1]
    \/ a[1] = b[1] /\ a[2] < b[2]
    \/ a[1] = b[1] /\ a[2] = b[2] /\ a[3] < b[3]

RECURSIVE SortTriples(_)
SortTriples(S) ==
    IF S = {} THEN <<>>
    ELSE LET m == CHOOSE x \in S : \A y \in S \ {x} : TripleLess(x, y)
         IN  <<m>> \o SortTriples(S \ {m})

\* get_spill_heights: the heights sorted by (from watershed, to watershed)
get_spill_heights(wss, h, steepest_spill_pairs, rows, cols) ==
    LET mapping == map_nodes_to_watersheds(wss, rows, cols)
        ws_pair_heights ==
            SortTriples({<<mapping[el[1]], mapping[el[2]], Max({h[el[1]], h[el[2]]})>> :
                            el \in Range(steepest_spill_pairs)})
    IN  [k \in DOMAIN ws_pair_heights |-> ws_pair_heights[k][3]]

\* get_all_traps: the traps (the sizes are their lengths)
\* every watershed taken whole as its trap
WholeWatershedTraps(wss, h, spill_heights) == wss

get_all_traps(wss, h, spill_heights) ==
    [i \in DOMAIN wss |-> SelectSeq(wss[i], LAMBDA c : h[c] <= spill_heights[i])]

\* the loop that ends make_depressionless and make_landscape_depressionless
RaiseTraps(h, traps, spill_heights) ==
    [c \in DOMAIN h |->
        IF \E i \in DOMAIN traps : c \in Range(traps[i])
        THEN spill_heights[Max({i \in DOMAIN traps : c \in Range(traps[i])})]
        ELSE h[c]]

make_landscape_depressionless(wss, steepest_spill_pairs, h, rows, cols) ==
    LET spill_heights == get_spill_heights(wss, h, steepest_spill_pairs, rows, cols)
        traps == get_all_traps(wss, h, spill_heights)
    IN  RaiseTraps(h, traps, spill_heights)

-----------------------------------------------------------------------------
(* Sparse matrices: [shape |-> n, data |-> the stored entries], data a function *)
(* from <<row, column>> to a value that is never 0                             *)

\* csr_matrix((data, (rows, cols)), shape): entries is a list of
\* <<row, column, value>>; values at the same place are summed
csr_matrix(entries, shape) ==
    LET at(e) == SumSeq([k \in DOMAIN entries |->
                            IF <<entries[k][1], entries[k][2]>> = e THEN entries[k][3] ELSE 0])
    IN  [shape |-> shape,
         data |-> [e \in {<<entries[k][1], entries[k][2]>> : k \in DOMAIN entries} |-> at(e)]]

\* A + B where the sums that are 0 stay stored
MatAddKeepZeros(A, B) ==
    LET at(e) == (IF e \in DOMAIN A.data THEN A.data[e] ELSE 0)
                 + (IF e \in DOMAIN B.data THEN B.data[e] ELSE 0)
    IN  [shape |-> A.shape,
         data |-> [e \in DOMAIN A.data \cup DOMAIN B.data |-> at(e)]]

\* A + B for two sparse matrices of one shape: sums that are 0 are not stored
MatAdd(A, B) ==
    LET at(e) == (IF e \in DOMAIN A.data THEN A.data[e] ELSE 0)
                 + (IF e \in DOMAIN B.data THEN B.data[e] ELSE 0)
    IN  [shape |-> A.shape,
         data |-> [e \in {d \in DOMAIN A.data \cup DOMAIN B.data : at(d) # 0} |-> at(e)]]

\* pairs of integers in lexicographic order
RECURSIVE SortPairs(_)
SortPairs(S) ==
    IF S = {} THEN <<>>
    ELSE LET m == CHOOSE x \in S : \A y \in S :
                      x[1] < y[1] \/ (x[1] = y[1] /\ x[2] <= y[2])
         IN  <<m>> \o SortPairs(S \ {m})

\* M[:, cols].nonzero(): <<row, position in cols>> of the stored entries, row by row
NonzeroInColumns(M, cols) ==
    SortPairs({rk \in (0..(M.shape - 1)) \X DOMAIN cols :
                  <<rk[1], cols[rk[2]]>> \in DOMAIN M.data})

\* np.unique(M[rows, :].nonzero()[1]): the columns stored in the given rows
NextNodes(M, rows) ==
    SortedSeq({e[2] : e \in {f \in DOMAIN M.data : f[1] \in Range(rows)}})

\* make_sparse_node_conn_matrix: one entry per cell with a flow target > 0
make_sparse_node_conn_matrix(flow_direction_indices, rows, cols) ==
    LET flow_from == SortedSeq({i \in DOMAIN flow_direction_indices :
                                   flow_direction_indices[i] > 0})
    IN  csr_matrix([k \in DOMAIN flow_from |->
                       <<flow_from[k], flow_direction_indices[flow_from[k]], 1>>],
                   rows * cols)

\* expand_conn_mat: empty rows and columns for the trap nodes
expand_conn_mat(conn_mat, nr_of_traps) ==
    [shape |-> conn_mat.shape + nr_of_traps, data |-> conn_mat.data]

-----------------------------------------------------------------------------
(* Flow accumulation (river_analysis.py) *)

\* get_traps_boundaries: per trap, its cells with a neighbour (of 8) outside it
get_traps_boundaries(traps, cols, rows) ==
    [t \in DOMAIN traps |->
        SelectSeq(traps[t], LAMBDA c :
            ~(Range(get_neighbor_indices(c, cols, FALSE)) \subseteq Range(traps[t])))]

\* reroute_trap_connections
reroute_trap_connections(conn_mat, rows, cols, traps, steepest_spill_pairs) ==
    LET r == conn_mat.shape
        first_trap_node == r - Len(traps)
        \* trap nodes -> downslope indices
        add_conn_from_trap_nodes ==
            csr_matrix([k \in DOMAIN traps |->
                           <<first_trap_node + k - 1, steepest_spill_pairs[k][2], 1>>], r)
        m1 == MatAdd(conn_mat, add_conn_from_trap_nodes)
        \* nodes to trap -> trap nodes
        trap_boundaries == Concat(get_traps_boundaries(traps, cols, rows))
        conn_node_to_trap == NonzeroInColumns(m1, trap_boundaries)
        nodes_to_trap == [k \in DOMAIN conn_node_to_trap |-> conn_node_to_trap[k][1]]
        nr_of_nonzero_per_column(c) == Cardinality({e \in DOMAIN m1.data : e[2] = c})
        nr_of_nodes_to_each_trap ==
            [i \in DOMAIN traps |->
                SumSeq([j \in DOMAIN traps[i] |-> nr_of_nonzero_per_column(traps[i][j])])]
        trap_indices ==
            Concat([i \in DOMAIN traps |->
                       [j \in 1..nr_of_nodes_to_each_trap[i] |-> first_trap_node + i - 1]])
        add_conn_to_trap_nodes ==
            csr_matrix([k \in DOMAIN nodes_to_trap |->
                           <<nodes_to_trap[k], trap_indices[k], 1>>], r)
        m2 == MatAdd(m1, add_conn_to_trap_nodes)
        \* nodes to trap -> nodes in trap, removed
        remove_conn_to_traps ==
            csr_matrix([k \in DOMAIN nodes_to_trap |->
                           <<nodes_to_trap[k], trap_boundaries[conn_node_to_trap[k][2]], -1>>], r)
        m3 == MatAdd(m2, remove_conn_to_traps)
        \* flow out of the domain, removed
        domain_boundary == SortedSeq(get_domain_boundary_indices(cols, rows))
        conn_nodes_to_boundary == NonzeroInColumns(m3, domain_boundary)
        remove_conn_to_boundary ==
            csr_matrix([k \in DOMAIN conn_nodes_to_boundary |->
                           <<conn_nodes_to_boundary[k][1],
                             domain_boundary[conn_nodes_to_boundary[k][2]], -1>>], r)
    IN  MatAdd(m3, remove_conn_to_boundary)

\* calculate_flow_origins: the nodes no flow leads into
calculate_flow_origins(expanded_conn_mat, traps, rows, cols) ==
    LET boundary_indices == get_domain_boundary_indices(cols, rows)
        nodes_with_upslope == {e[2] : e \in DOMAIN expanded_conn_mat.data}
        original_trap_nodes == Range(Concat(traps))
        not_starting_nodes == boundary_indices \cup nodes_with_upslope \cup original_trap_nodes
    IN  SortedSeq((0..(rows * cols + Len(traps) - 1)) \ not_starting_nodes)

\* assign_initial_flow_acc: <<acc_flow, one_or_trap_size>>
assign_initial_flow_acc(traps, start_nodes, rows, cols) ==
    LET nr_of_nodes == rows * cols
        one_or_trap_size ==
            [n \in 0..(nr_of_nodes + Len(traps) - 1) |->
                IF n >= nr_of_nodes THEN Len(traps[n - nr_of_nodes + 1]) ELSE 1]
        acc_flow ==
            [n \in 0..(nr_of_nodes + Len(traps) - 1) |->
                IF n \in Range(start_nodes) THEN one_or_trap_size[n] ELSE 0]
    IN  <<acc_flow, one_or_trap_size>>

\* one turn of the loop of calculate_nr_of_upslope_cells: <<flow_acc, current_nodes>>
WavefrontTurn(conn_mat, flow_acc, one_or_trap_size, current_nodes) ==
    LET nz == NonzeroInColumns(conn_mat, current_nodes)
        previous_nodes == [k \in DOMAIN nz |-> nz[k][1]]
        corr_current_index == [k \in DOMAIN nz |-> nz[k][2]]
        columns == SortedSeq(Range(corr_current_index))
        remove_indices == {corr_current_index[k] : k \in {j \in DOMAIN nz :
                                                         ~(flow_acc[previous_nodes[j]] > 0)}}
        keep_indices == DOMAIN current_nodes \ remove_indices
        assign_flow_indices == Range(current_nodes) \ {current_nodes[k] : k \in remove_indices}
        flow_to_each_current ==
            [j \in DOMAIN columns |->
                SumSeq([k \in DOMAIN nz |->
                           IF corr_current_index[k] = columns[j]
                           THEN flow_acc[previous_nodes[k]] ELSE 0])]
        assigned == [n \in DOMAIN flow_acc |->
                        IF \E k \in keep_indices : current_nodes[k] = n
                        THEN flow_to_each_current[CHOOSE k \in keep_indices : current_nodes[k] = n]
                        ELSE flow_acc[n]]
        added == [n \in DOMAIN flow_acc |->
                     IF n \in assign_flow_indices THEN assigned[n] + one_or_trap_size[n]
                     ELSE assigned[n]]
        unassigned_current_nodes == {current_nodes[k] : k \in remove_indices}
    IN  IF assign_flow_indices # {}
        THEN <<added, SortedSeq(Range(NextNodes(conn_mat, SortedSeq(assign_flow_indices)))
                                \cup unassigned_current_nodes)>>
        ELSE <<added, <<>>>>

\* the trap node of the first trap, whatever the trap
FirstTrapNode(i, rows, cols) == rows * cols

\* the trap node of trap i (counted from 0): the cells of trap i take its value
TrapNode(i, rows, cols) == rows * cols + i

\* the mapping from the trap nodes back to the traps
MapTrapNodesBack(flow_acc, traps, rows, cols) ==
    [n \in DOMAIN flow_acc |->
        IF \E i \in DOMAIN traps : n \in Range(traps[i])
        THEN flow_acc[TrapNode(Max({i \in DOMAIN traps : n \in Range(traps[i])}) - 1,
                               rows, cols)]
        ELSE flow_acc[n]]

-----------------------------------------------------------------------------
(* Input rasters *)

MaxH == 2       \* interior cells of the 4 x 5 rasters take the heights 0..MaxH
MaxLow == 1     \* interior cells of the 5 x 5 rasters take the heights 0..MaxLow

\* a raster: the interior from f, the boundary ring at border, one ring cell
\* (outlet) at height 0
Raster(rows, cols, f, border, outlet) ==
    [i \in 0..(rows * cols - 1) |->
        IF i \in InteriorCells(rows, cols) THEN f[i]
        ELSE IF i = outlet THEN 0 ELSE border]

\* a raster: the interior from f, the boundary ring at height 1 except its east
\* side (without the corners), which is at height 0
LowSideRaster(rows, cols, f) ==
    [i \in 0..(rows * cols - 1) |->
        IF i \in InteriorCells(rows, cols) THEN f[i]
        ELSE IF i % cols = cols - 1 /\ i \div cols >= 1 /\ i \div cols <= rows - 2
             THEN 0 ELSE 1]

\* 4 rows x 5 columns: a ring above the interior with a low outlet at cell 1
Landscapes ==
    {[rows |-> 4, cols |-> 5, h |-> Raster(4, 5, f, MaxH + 1, 1)] :
        f \in [InteriorCells(4, 5) -> 0..MaxH]}

\* 5 rows x 5 columns: a low rim that drains to the east
LowSideLandscapes ==
    {[rows |-> 5, cols |-> 5, h |-> LowSideRaster(5, 5, f)] :
        f \in [InteriorCells(5, 5) -> 0..MaxLow]}

MaxTilt == 1    \* the planes of the 5 x 5 scenarios drop by 0..MaxTilt per row
MaxDepth == 5   \* one cell of a scenario lies 0..MaxDepth below its plane

\* a plane of height base in row 0 that drops by tilt per row to the south,
\* with the cell pit lowered by depth
TiltedRaster(rows, cols, base, tilt, pit, depth) ==
    [i \in 0..(rows * cols - 1) |->
        base - tilt * (i \div cols) - (IF i = pit THEN depth ELSE 0)]

\* 5 rows x 5 columns: plateaus and planes tilted to the south, each as it is
\* and with one interior cell lowered
ScenarioLandscapes ==
    {[rows |-> 5, cols |-> 5, h |-> TiltedRaster(5, 5, b, t, p, d)] :
        b \in {5, 10}, t \in 0..MaxTilt, p \in InteriorCells(5, 5), d \in 0..MaxDepth}

MaxSide == 3    \* the small rasters have 1..MaxSide rows and columns

\* a raster of height 1 with the cell low at height 0 (low = -1: no such cell)
DentedRaster(rows, cols, low) ==
    [i \in 0..(rows * cols - 1) |-> IF i = low THEN 0 ELSE 1]

\* small rasters, with and without interior cells
SmallLandscapes ==
    UNION {{[rows |-> r, cols |-> c, h |-> DentedRaster(r, c, low)] :
               low \in -1..(r * c - 1)} :
           r \in 1..MaxSide, c \in 1..MaxSide}

MaxRidge == 1   \* the interior heights of the 4 x 6 rasters are 0..MaxRidge

\* the 4 x 6 rasters with a high rim and an outlet at cell 1: room for three
\* watersheds spilling in a ring beside a fourth one
RidgeLandscapes ==
    {[rows |-> 4, cols |-> 6, h |-> Raster(4, 6, f, MaxRidge + 1, 1)] :
        f \in [InteriorCells(4, 6) -> 0..MaxRidge]}

-----------------------------------------------------------------------------
(* The pipeline *)

Start(landscapes) ==
    /\ \E l \in landscapes : nx = l.cols /\ ny = l.rows /\ heights = l.h
    /\ input = heights
    /\ d4 \in BOOLEAN
    /\ pc = "start"
    /\ run = 1
    /\ firstHeights = <<>>
    /\ flow = <<>>
    /\ terminal = <<>>
    /\ numInserted = 0
    /\ watersheds = <<>>
    /\ merged = <<>>
    /\ remaining = {}
    /\ steepest = <<>>
    /\ roundPairs = {}
    /\ rounds = 0
    /\ trapList = <<>>
    /\ connMat = [shape |-> 0, data |-> <<>>]
    /\ flowAcc = <<>>
    /\ currentNodes = <<>>
    /\ it = 0
    /\ upslope = <<>>

Init == Start(Landscapes)

InitTwice == Start(LowSideLandscapes)

InitScenarios == Start(ScenarioLandscapes)

InitSmall == Start(SmallLandscapes)

InitRidges == Start(RidgeLandscapes)

\* util.fill_single_cell_depressions(heights, ny, nx)
Fill ==
    /\ pc = "start"
    /\ heights' = fill_single_cell_depressions(heights, ny, nx)
    /\ pc' = "filled"
    /\ UNCHANGED <<accVars, trapList, input, nx, ny, d4, run, firstHeights, flow, terminal, numInserted,
                   watersheds, merged, remaining, steepest, roundPairs, rounds>>

\* calculate_watersheds / make_depressionless: get_flow_direction_indices, and
\* get_node_endpoints up to its loop
Flow ==
    /\ pc = "filled"
    /\ flow' = get_flow_direction_indices(heights, ny, nx, d4)
    /\ terminal' = InitialTerminalNodes(flow', ny, nx)
    /\ numInserted' = Cardinality({i \in DOMAIN flow' : flow'[i] = PIT})
    /\ pc' = "sweep"
    /\ UNCHANGED <<accVars, trapList, input, nx, ny, d4, heights, run, firstHeights,
                   watersheds, merged, remaining, steepest, roundPairs, rounds>>

\* one turn of the loop of get_node_endpoints
Sweep ==
    /\ pc = "sweep"
    /\ numInserted > 0
    /\ LET u == update_terminal_nodes(terminal, flow)
       IN  numInserted' = u[1] /\ terminal' = u[2]
    /\ UNCHANGED <<accVars, trapList, input, nx, ny, d4, heights, pc, run, firstHeights, flow,
                   watersheds, merged, remaining, steepest, roundPairs, rounds>>

\* the end of get_node_endpoints, get_local_watersheds, combine_minima and
\* combine_watersheds; the keys of the dictionary come in any order
Combine ==
    /\ pc = "sweep"
    /\ numInserted = 0
    /\ LET node_endpoints == ResetBoundary(terminal, ny, nx)
           local_watersheds == get_local_watersheds(node_endpoints)
       IN  /\ terminal' = node_endpoints
           /\ \E local_minima \in KeyOrders(DOMAIN local_watersheds, nx, d4) :
                watersheds' = combine_watersheds(local_watersheds,
                                  combine_minima(local_minima, ny, nx, d4))
    /\ merged' = watersheds'
    /\ remaining' = {}
    /\ steepest' = <<>>
    /\ roundPairs' = {}
    /\ rounds' = 0
    /\ pc' = "spill"
    /\ UNCHANGED <<accVars, trapList, input, nx, ny, d4, heights, run, firstHeights, flow, numInserted>>

\* the body of the loop of combine_watersheds_spilling_into_each_other after
\* the spill pairs st are known, for one iteration order of merge_pairs and
\* one listing of the cycles: <<merged_watersheds, remaining_spill_pairs, watersheds>>
SpillRoundResult(wss, st, rows, cols, order, cycles) ==
    LET m == merge_watersheds_flowing_into_each_other(wss, st, rows, cols, order)
        ws1 == KeepWatersheds(wss, m[3]) \o m[1]
    IN  IF Len(m[1]) = 0
        THEN LET c == remove_cycles(ws1, st, rows, cols, cycles)
             IN  <<c[1], st \ c[2], KeepWatersheds(ws1, c[3]) \o c[1]>>
        ELSE <<m[1], st \ m[2], ws1>>

\* the results the body can have: the set merge_pairs is iterated in any
\* order, and the cycles are listed only when no pair was merged
SpillRoundResults(wss, st, rows, cols) ==
    UNION {LET m == merge_watersheds_flowing_into_each_other(wss, st, rows, cols, order)
               ws1 == KeepWatersheds(wss, m[3]) \o m[1]
               listings == IF Len(m[1]) = 0
                           THEN SimpleCycleLists(WsSpillEdges(ws1, st, rows, cols))
                           ELSE {<<>>}
           IN  {SpillRoundResult(wss, st, rows, cols, order, cycles) : cycles \in listings} :
           order \in Perms(MergePairs(wss, st, rows, cols))}

\* one turn of the loop of combine_watersheds_spilling_into_each_other
SpillRound ==
    /\ pc = "spill"
    /\ Len(merged) > 0
    /\ roundPairs' = NewSpillPairs(merged, heights, nx, d4) \cup remaining
    /\ \E r \in SpillRoundResults(watersheds,
                    NewSpillPairs(merged, heights, nx, d4) \cup remaining, ny, nx) :
          /\ merged' = r[1]
          /\ remaining' = r[2]
          /\ watersheds' = r[3]
    /\ rounds' = rounds + 1
    /\ UNCHANGED <<accVars, trapList, input, nx, ny, d4, heights, pc, run, firstHeights, flow, terminal,
                   numInserted, steepest>>

\* the return of combine_watersheds_spilling_into_each_other and calculate_watersheds
ReturnWatersheds ==
    /\ pc = "spill"
    /\ Len(merged) = 0
    /\ steepest' = IF roundPairs # {} THEN OrderSpillPairs(watersheds, roundPairs, ny, nx)
                   ELSE <<>>
    /\ pc' = "watersheds"
    /\ UNCHANGED <<accVars, trapList, input, nx, ny, d4, heights, run, firstHeights, flow, terminal, numInserted,
                   watersheds, merged, remaining, roundPairs, rounds>>

\* get_spill_heights, get_all_traps and the raising of the traps
Flatten ==
    /\ pc = "watersheds"
    /\ trapList' = get_all_traps(watersheds, heights,
                     get_spill_heights(watersheds, heights, steepest, ny, nx))
    /\ heights' = make_landscape_depressionless(watersheds, steepest, heights, ny, nx)
    /\ firstHeights' = IF run = 1 THEN heights' ELSE firstHeights
    /\ pc' = "flattened"
    /\ UNCHANGED <<accVars, input, nx, ny, d4, run, flow, terminal, numInserted,
                   watersheds, merged, remaining, steepest, roundPairs, rounds>>

\* the flow field recomputed on the flattened raster
Reflow ==
    /\ pc = "flattened"
    /\ flow' = get_flow_direction_indices(heights, ny, nx, d4)
    /\ pc' = "reflow"
    /\ UNCHANGED <<accVars, input, nx, ny, d4, heights, run, firstHeights, terminal, numInserted,
                   watersheds, merged, remaining, steepest, roundPairs, rounds, trapList>>

\* everything the accumulation leaves alone
wsVars == <<input, nx, ny, d4, heights, run, firstHeights, terminal, numInserted,
            watersheds, merged, remaining, steepest, roundPairs, rounds, trapList>>

\* save_flow_accumulation.py: the flow out of the trap cells removed, and
\* make_sparse_node_conn_matrix.  river_analysis.py works on 8 neighbours.
Graph ==
    /\ pc = "reflow"
    /\ ~d4
    /\ flow' = [i \in DOMAIN flow |->
                   IF i \in Range(Concat(trapList)) THEN -1 ELSE flow[i]]
    /\ connMat' = make_sparse_node_conn_matrix(flow', ny, nx)
    /\ pc' = "graph"
    /\ UNCHANGED <<wsVars, flowAcc, currentNodes, it, upslope>>

\* calculate_nr_of_upslope_cells up to its loop
Reroute ==
    /\ pc = "graph"
    /\ connMat' = reroute_trap_connections(expand_conn_mat(connMat, Len(trapList)),
                                           ny, nx, trapList, steepest)
    /\ LET start_nodes == calculate_flow_origins(connMat', trapList, ny, nx)
       IN  /\ flowAcc' = assign_initial_flow_acc(trapList, start_nodes, ny, nx)[1]
           /\ currentNodes' = NextNodes(connMat', start_nodes)
    /\ it' = 0
    /\ pc' = "wavefront"
    /\ UNCHANGED <<wsVars, flow, upslope>>

\* one turn of the loop of calculate_nr_of_upslope_cells
Wavefront ==
    /\ pc = "wavefront"
    /\ Len(currentNodes) > 0
    /\ LET one_or_trap_size == assign_initial_flow_acc(trapList, <<>>, ny, nx)[2]
           w == WavefrontTurn(connMat, flowAcc, one_or_trap_size, currentNodes)
       IN  flowAcc' = w[1] /\ currentNodes' = w[2]
    /\ it' = it + 1
    /\ UNCHANGED <<wsVars, pc, flow, connMat, upslope>>

\* the end of calculate_nr_of_upslope_cells: the traps take the value of their
\* trap node, and the raster of the cells is returned
Project ==
    /\ pc = "wavefront"
    /\ Len(currentNodes) = 0
    /\ flowAcc' = MapTrapNodesBack(flowAcc, trapList, ny, nx)
    /\ upslope' = [i \in 0..(ny * nx - 1) |-> flowAcc'[i]]
    /\ pc' = "done"
    /\ UNCHANGED <<wsVars, flow, connMat, currentNodes, it>>

\* make_depressionless called on the raster it returned
Again ==
    /\ pc = "flattened"
    /\ run = 1
    /\ run' = 2
    /\ pc' = "start"
    /\ input' = heights
    /\ UNCHANGED <<accVars, trapList, nx, ny, d4, heights, firstHeights, flow, terminal, numInserted,
                   watersheds, merged, remaining, steepest, roundPairs, rounds>>

Next ==
    \/ Fill
    \/ Flow
    \/ Sweep
    \/ Combine
    \/ SpillRound
    \/ ReturnWatersheds
    \/ Flatten
    \/ Reflow
    \/ Graph
    \/ Reroute
    \/ Wavefront
    \/ Project

Spec == Init /\ [][Next]_vars

\* make_depressionless applied to a raster and then to the raster it returned
NextTwice ==
    \/ Fill
    \/ Flow
    \/ Sweep
    \/ Combine
    \/ SpillRound
    \/ ReturnWatersheds
    \/ Flatten
    \/ Again

SpecTwice == InitTwice /\ [][NextTwice]_vars

\* a turn of the spill loop as the interpreter schedules it: the condition of
\* the while holds (util.py:801) and the body runs to its end (it += 1); a
\* step of Next is such a turn exactly when it is a step of SpillRound
LoopTurn ==
    /\ pc = "spill"
    /\ Len(merged) > 0
    /\ rounds' = rounds + 1

\* the pipeline when the spill loop is not held up: while its condition holds,
\* the next turn is taken
SpecLive == Init /\ [][Next]_vars /\ WF_rounds(LoopTurn)

\* the loop of get_node_endpoints runs its body while num_inserted > 0
SpecSweep == Init /\ [][Next]_vars /\ WF_vars(Sweep)

\* the loop of calculate_nr_of_upslope_cells takes another turn while there
\* are current nodes
WavefrontLoopTurn ==
    /\ pc = "wavefront"
    /\ Len(currentNodes) > 0
    /\ it' = it + 1

SpecWavefront == Init /\ [][Next]_vars /\ WF_it(WavefrontLoopTurn)

\* fill_single_cell_depressions called on a small raster
NextSmall ==
    \/ Fill

SpecSmall == InitSmall /\ [][NextSmall]_vars

SpecRidges == InitRidges /\ [][Next]_vars

\* the pipeline on the plateaus and tilted planes
SpecScenarios == InitScenarios /\ [][Next]_vars

-----------------------------------------------------------------------------
(* Watersheds and spill pairs *)

\* how often the cell i is listed in the watersheds wss
Occurrences(wss, i) ==
    SumSeq([k \in DOMAIN wss |-> Len(SelectSeq(wss[k], LAMBDA c : c = i))])

\* C1: at the end of every round of the spill loop and in the list
\* calculate_watersheds returns, every interior cell is listed in exactly one
\* watershed, exactly once, no domain-boundary cell is listed in any, and so
\* map_nodes_to_watersheds is -1 exactly on the domain boundary.
C1_WatershedsPartitionInterior ==
    (pc = "spill" /\ rounds >= 1) \/ pc = "watersheds" =>
        /\ \A i \in InteriorCells(ny, nx) : Occurrences(watersheds, i) = 1
        /\ \A i \in get_domain_boundary_indices(nx, ny) : Occurrences(watersheds, i) = 0
        /\ \A i \in 0..(ny * nx - 1) :
              map_nodes_to_watersheds(watersheds, ny, nx)[i] = -1
                  <=> i \in get_domain_boundary_indices(nx, ny)

\* a round that merged watersheds has ended and several watersheds are left
C1_RoundMergedWatersheds ==
    /\ pc = "spill"
    /\ rounds >= 1
    /\ Len(merged) >= 1
    /\ Len(watersheds) >= 2

\* C2: when combine_watersheds_spilling_into_each_other returns, no two
\* watersheds spill into each other and the graph watershed of from ->
\* watershed of to over the returned spill pairs has no directed cycle.
C2_NoSpillCycleAtReturn ==
    pc = "watersheds" =>
        LET edges == WsSpillEdges(watersheds, Range(steepest), ny, nx)
        IN  /\ \A e \in edges : <<e[2], e[1]>> \notin edges
            /\ \A e \in edges : ~OnCycle(e[1], edges)

\* the loop returned after it merged watersheds, and a watershed still spills
\* into another one
C2_ReturnedAfterMerging ==
    /\ pc = "watersheds"
    /\ rounds >= 2
    /\ WsSpillEdges(watersheds, Range(steepest), ny, nx) # {}

\* C3: calculate_watersheds returns one spill pair per watershed, the i-th pair
\* for the i-th watershed: from is in watershed i, to is not, and to is in
\* another watershed or on the domain boundary.
C3_OneSpillPairPerWatershed ==
    pc = "watersheds" =>
        /\ Len(steepest) = Len(watersheds)
        /\ \A i \in DOMAIN steepest :
              /\ steepest[i][1] \in Range(watersheds[i])
              /\ steepest[i][2] \notin Range(watersheds[i])
              /\ \/ \E j \in DOMAIN watersheds : j # i /\ steepest[i][2] \in Range(watersheds[j])
                 \/ steepest[i][2] \in get_domain_boundary_indices(nx, ny)

\* several watersheds are returned, one spills into another watershed and one
\* over the domain boundary
C3_ReturnedBothKindsOfPair ==
    /\ pc = "watersheds"
    /\ Len(watersheds) >= 2
    /\ \E i \in DOMAIN steepest : steepest[i][2] \in get_domain_boundary_indices(nx, ny)
    /\ \E i \in DOMAIN steepest : steepest[i][2] \notin get_domain_boundary_indices(nx, ny)

-----------------------------------------------------------------------------
(* The flattened raster *)

\* C4: make_depressionless run on the raster it returned changes no height.
C4_Idempotent ==
    (pc = "flattened" /\ run = 2) => heights = firstHeights

\* the interior cells from which a path through the 8 neighbours reaches the
\* domain boundary without ever stepping up; D holds the cells found so far
RECURSIVE Draining(_, _, _, _)
Draining(D, h, rows, cols) ==
    LET bnd == get_domain_boundary_indices(cols, rows)
        E == D \cup {i \in InteriorCells(rows, cols) :
                        \E n \in Range(get_neighbor_indices(i, cols, FALSE)) :
                            h[n] <= h[i] /\ (n \in bnd \/ n \in D)}
    IN  IF E = D THEN D ELSE Draining(E, h, rows, cols)

\* C5: after the flattener no closed depression is left: from every interior
\* cell a path through grid neighbours reaches a domain-boundary cell and
\* never steps up.
C5_NoClosedDepression ==
    pc = "flattened" => Draining({}, heights, ny, nx) = InteriorCells(ny, nx)

\* C6: in the flow field recomputed after make_depressionless, every interior
\* cell is a pit (-1) or flows to a cell that is not higher than itself.
C6_FlowNeverRises ==
    pc = "reflow" =>
        \A i \in InteriorCells(ny, nx) : flow[i] = PIT \/ heights[flow[i]] <= heights[i]

\* a trap of several cells was raised, and in the recomputed field one cell
\* flows down to a neighbour while another one is a pit
C6_RecomputedOverRaisedTrap ==
    /\ pc = "reflow"
    /\ \E k \in DOMAIN trapList : Len(trapList[k]) >= 2
    /\ \E i \in InteriorCells(ny, nx) : flow[i] # PIT /\ heights[flow[i]] < heights[i]
    /\ \E i \in InteriorCells(ny, nx) : flow[i] = PIT

-----------------------------------------------------------------------------
(* Flow accumulation *)

\* the edges stored in the connectivity matrix
Edges == DOMAIN connMat.data

\* the cells that lie in a trap
TrapCells == Range(Concat(trapList))

\* the nodes of the rewritten graph that carry flow: the interior cells outside
\* the traps and one trap node per trap
FlowNodes ==
    (InteriorCells(ny, nx) \ TrapCells) \cup {ny * nx + k - 1 : k \in DOMAIN trapList}

\* what a node adds to the flow: 1 for a cell, the size of its trap for a trap node
Contribution(n) == IF n >= ny * nx THEN Len(trapList[n - ny * nx + 1]) ELSE 1

\* the nodes other than n with a directed path to n
Upslope(n) ==
    LET reversed == {<<e[2], e[1]>> : e \in Edges}
    IN  ReachFrom(Successors(n, reversed), reversed) \ {n}

\* the upslope count of the node n: its own contribution and that of every
\* node with a path to it
UpslopeCount(n) ==
    LET up == SortedSeq(Upslope(n))
    IN  Contribution(n) + SumSeq([k \in DOMAIN up |-> Contribution(up[k])])

TrapNodes == {ny * nx + k - 1 : k \in DOMAIN trapList}

-----------------------------------------------------------------------------
(* End-to-end scenarios *)

\* the stages at which calculate_watersheds has returned
AfterWatersheds == {"watersheds", "flattened", "reflow", "graph", "wavefront", "done"}

\* the stages at which the traps are known
AfterTraps == {"flattened", "reflow", "graph", "wavefront", "done"}

\* 5 x 5, all heights 10
IsFlatPlateau ==
    nx = 5 /\ ny = 5 /\ \A i \in DOMAIN input : input[i] = 10

\* 5 x 5, h[r][c] = 10 - r
IsTiltedPlane ==
    nx = 5 /\ ny = 5 /\ \A i \in DOMAIN input : input[i] = 10 - (i \div 5)

\* 5 x 5, height 5 everywhere except h[2][2] = 0
IsSinglePit ==
    nx = 5 /\ ny = 5 /\ \A i \in DOMAIN input : input[i] = IF i = 12 THEN 0 ELSE 5

\* one watershed and one trap, both of all interior cells, and the
\* accumulation n at every interior cell
OneLake(n) ==
    /\ pc \in AfterWatersheds =>
          Len(watersheds) = 1 /\ Len(watersheds[1]) = n
              /\ Range(watersheds[1]) = InteriorCells(ny, nx)
    /\ pc \in AfterTraps =>
          Len(trapList) = 1 /\ Len(trapList[1]) = n
              /\ Range(trapList[1]) = InteriorCells(ny, nx)
    /\ pc = "done" => \A c \in InteriorCells(ny, nx) : upslope[c] = n

C14_TiltedPlane ==
    IsTiltedPlane =>
        /\ pc \in AfterTraps => \A k \in DOMAIN trapList : Len(trapList[k]) = 0
        /\ pc = "reflow" => \A i \in InteriorCells(ny, nx) : flow[i] \in {i + nx, PIT}
        /\ pc = "done" => \A i \in InteriorCells(ny, nx) : upslope[i] = i \div nx

-----------------------------------------------------------------------------
(* Mutually spilling watersheds *)

\* the pairs a < b of watersheds of wss whose spill pairs in pairs lead into
\* each other
MutuallySpilling(wss, pairs) ==
    {ab \in (DOMAIN wss) \X (DOMAIN wss) :
        /\ ab[1] < ab[2]
        /\ \E s \in pairs : s[1] \in Range(wss[ab[1]]) /\ s[2] \in Range(wss[ab[2]])
        /\ \E t \in pairs : t[1] \in Range(wss[ab[2]]) /\ t[2] \in Range(wss[ab[1]])}

\* C16: in every round of the spill loop, two watersheds a and b whose
\* steepest spill pairs lead into each other are replaced by their union (a
\* and b leave the list, a followed by b enters it); no later round and not
\* the return splits a watershed, so the cells of a and b end in one
\* watershed; and every returned watershed has a single spill pair, which
\* leads out of it.
C16_MutualPairMerged ==
    /\ [][/\ (pc = "spill" /\ rounds' = rounds + 1) =>
              /\ \A ab \in MutuallySpilling(watersheds, roundPairs') :
                    /\ \E k \in DOMAIN watersheds' :
                          watersheds'[k] = watersheds[ab[1]] \o watersheds[ab[2]]
                    /\ \A k \in DOMAIN watersheds' :
                          /\ watersheds'[k] # watersheds[ab[1]]
                          /\ watersheds'[k] # watersheds[ab[2]]
              /\ \A a \in DOMAIN watersheds : \E k \in DOMAIN watersheds' :
                    Range(watersheds[a]) \subseteq Range(watersheds'[k])
          /\ (pc = "spill" /\ pc' = "watersheds") => watersheds' = watersheds]_vars
    /\ [](pc = "watersheds" =>
            \A k \in DOMAIN watersheds :
                /\ Cardinality({j \in DOMAIN steepest :
                                  steepest[j][1] \in Range(watersheds[k])}) = 1
                /\ \A j \in DOMAIN steepest :
                      steepest[j][1] \in Range(watersheds[k]) =>
                          steepest[j][2] \notin Range(watersheds[k]))

\* a round has merged watersheds, and in the round to come two watersheds
\* spill into each other again
C16_MutualPairInLaterRound ==
    /\ pc = "spill"
    /\ rounds >= 1
    /\ Len(merged) >= 1
    /\ MutuallySpilling(watersheds, NewSpillPairs(merged, heights, nx, d4) \cup remaining) # {}

-----------------------------------------------------------------------------
(* The pit filler *)

\* the 8 grid neighbours of the interior cell i
EightNeighbors(i, cols) ==
    {i - cols - 1, i - cols, i - cols + 1, i - 1, i + 1,
     i + cols - 1, i + cols, i + cols + 1}

\* the interior cells of the raster h that lie strictly below all 8 neighbours
OneCellPits(h, rows, cols) ==
    {i \in InteriorCells(rows, cols) : \A n \in EightNeighbors(i, cols) : h[i] < h[n]}

\* C17: fill_single_cell_depressions raises every interior cell that lies
\* strictly below all 8 of its neighbours, in either connectivity mode, to the
\* lowest of its neighbours' heights in the raster it was given, all in one
\* pass, and leaves every other cell, the domain boundary included, as it was.
C17_PitsRaisedToLowestNeighbor ==
    pc = "filled" =>
        /\ DOMAIN heights = DOMAIN input
        /\ \A i \in OneCellPits(input, ny, nx) :
              /\ \A n \in EightNeighbors(i, nx) : heights[i] <= input[n]
              /\ \E n \in EightNeighbors(i, nx) : heights[i] = input[n]
        /\ \A i \in DOMAIN input \ OneCellPits(input, ny, nx) : heights[i] = input[i]

\* the filler has raised two pits to different heights in one pass, in the
\* 4-connected mode
C17_TwoPitsFilled ==
    /\ pc = "filled"
    /\ d4
    /\ \E i, j \in OneCellPits(input, ny, nx) : heights[i] < heights[j]
    /\ \E i \in InteriorCells(ny, nx) : heights[i] = input[i]

\* C18: the raster fill_single_cell_depressions returns has no interior cell
\* strictly below all 8 of its neighbours, and a second call changes nothing.
C18_NoPitLeftAfterFill ==
    pc = "filled" =>
        /\ OneCellPits(heights, ny, nx) = {}
        /\ fill_single_cell_depressions(heights, ny, nx) = heights

\* the filler has raised a pit whose neighbours had different heights
C18_PitFilledBelowSomeNeighbor ==
    /\ pc = "filled"
    /\ \E i \in OneCellPits(input, ny, nx) :
          \E n \in EightNeighbors(i, nx) : heights[i] < heights[n] /\ n \in InteriorCells(ny, nx)

-----------------------------------------------------------------------------
(* Rasters without interior *)

\* C19: for a raster with nx < 3 or ny < 3 the call does not return a result:
\* it ends in a dimension error, and the heights are as they were handed in.
C19_DimensionErrorSurfaced ==
    (nx < 3 \/ ny < 3) =>
        /\ pc \in {"start", "dimension error"}
        /\ heights = input

-----------------------------------------------------------------------------
(* The flow field *)

\* the neighbours of the interior cell i in the canonical order: E, S, W, N,
\* or NE, E, SE, S, SW, W, NW, N
CanonicalNeighbors(i, cols, dfour) ==
    IF dfour THEN <<i + 1, i + cols, i - 1, i - cols>>
    ELSE <<i - cols + 1, i + 1, i + cols + 1, i + cols,
           i + cols - 1, i - 1, i - cols - 1, i - cols>>

\* whether the slope from i to a is at least the slope from i to b, the drop
\* to a diagonal neighbour divided by step * sqrt 2, to another one by step
SlopeAtLeast(h, i, a, b, cols) ==
    LET da == h[i] - h[a]
        db == h[i] - h[b]
        wa == IF (i - a) \in {1, -1, cols, -cols} THEN 2 ELSE 1
        wb == IF (i - b) \in {1, -1, cols, -cols} THEN 2 ELSE 1
    IN  IF da >= 0 /\ db >= 0 THEN wa * da * da >= wb * db * db
        ELSE IF da < 0 /\ db < 0 THEN wa * da * da <= wb * db * db
        ELSE da >= 0

\* the first neighbour of i, in the canonical order, with the maximum slope
SteepestNeighbor(h, i, cols, dfour) ==
    LET nb == CanonicalNeighbors(i, cols, dfour)
        best == {k \in DOMAIN nb : \A j \in DOMAIN nb : SlopeAtLeast(h, i, nb[k], nb[j], cols)}
    IN  nb[CHOOSE k \in best : \A j \in best : k <= j]

\* the stages at which flow is the flow field of heights
FlowFieldStages == {"sweep", "spill", "watersheds", "reflow"}

\* C20: get_flow_direction_indices gives every interior cell -1 when its
\* maximum slope is <= 0, and otherwise the first neighbour with the maximum
\* slope in the canonical order, but -1 when that neighbour lies on the
\* domain boundary; no flow target is a domain-boundary cell.
C20_FlowToSteepestNeighbor ==
    pc \in FlowFieldStages =>
        \A i \in InteriorCells(ny, nx) :
            LET n == SteepestNeighbor(heights, i, nx, d4)
            IN  /\ flow[i] = IF heights[i] - heights[n] <= 0 THEN PIT
                              ELSE IF n \in get_domain_boundary_indices(nx, ny) THEN PIT
                              ELSE n
                /\ flow[i] \notin get_domain_boundary_indices(nx, ny)

\* a flow field in which one cell flows to the first of two neighbours of
\* equal maximum slope, one cell would flow across the domain boundary, and
\* one cell has no positive slope
C20_TieBoundaryAndPit ==
    /\ pc = "sweep"
    /\ \E i \in InteriorCells(ny, nx) :
          /\ flow[i] # PIT
          /\ \E m \in Range(CanonicalNeighbors(i, nx, d4)) \ {flow[i]} :
                SlopeAtLeast(heights, i, m, flow[i], nx)
    /\ \E i \in InteriorCells(ny, nx) :
          LET n == SteepestNeighbor(heights, i, nx, d4)
          IN  heights[i] > heights[n] /\ n \in get_domain_boundary_indices(nx, ny)
    /\ \E i \in InteriorCells(ny, nx) :
          heights[i] <= heights[SteepestNeighbor(heights, i, nx, d4)]

-----------------------------------------------------------------------------
(* Termination of the spill loop *)

\* C21: every round of the spill loop that merges watersheds leaves strictly
\* fewer watersheds than it found, and the loop eventually reaches a round
\* in which neither the mutual-spill merge nor remove_cycles merges any; the
\* loop returns only after such a round.
C21_SpillLoopTerminates ==
    /\ [][(pc = "spill" /\ rounds' = rounds + 1 /\ Len(merged') > 0) =>
              Len(watersheds') < Len(watersheds)]_vars
    /\ [][(pc = "spill" /\ pc' = "watersheds") => Len(merged) = 0]_vars
    /\ (pc = "spill") ~> (pc = "spill" /\ rounds >= 1 /\ Len(merged) = 0)

\* the loop has returned after two rounds that merged watersheds
C21_ReturnedAfterTwoMerges ==
    /\ pc = "watersheds"
    /\ rounds >= 3

-----------------------------------------------------------------------------
(* Spill pairs carried from round to round *)

\* C22: in every round of the spill loop the spill pairs in use, those newly
\* computed for the watersheds the last round formed together with those
\* carried forward, are the pairs the three steps give from scratch on the
\* whole list of watersheds, one per watershed; no pair carried out of a
\* round starts in a watershed that round formed; and the pairs returned are
\* those computed from scratch on the returned watersheds.
C22_CarriedPairsAreRecomputedPairs ==
    /\ [][(pc = "spill" /\ rounds' = rounds + 1) =>
              /\ roundPairs' = NewSpillPairs(watersheds, heights, nx, d4)
              /\ Cardinality(roundPairs') = Len(watersheds)
              /\ \A p \in remaining' : \A k \in DOMAIN merged' :
                    p[1] \notin Range(merged'[k])]_vars
    /\ [](pc = "watersheds" =>
            /\ Range(steepest) = NewSpillPairs(watersheds, heights, nx, d4)
            /\ Len(steepest) = Cardinality(Range(steepest)))

\* a round is about to run with spill pairs carried forward next to a
\* watershed the last round formed
C22_RoundWithCarriedPairs ==
    /\ pc = "spill"
    /\ rounds >= 1
    /\ Len(merged) >= 1
    /\ remaining # {}

-----------------------------------------------------------------------------
(* The spill pair of a watershed *)

\* the boundary pairs of the watershed w: u in w, v a grid neighbour of u, v not in w
BoundaryPairSet(w, cols, dfour) ==
    {p \in Range(w) \X (0..(ny * nx - 1)) :
        /\ p[2] \in Range(CanonicalNeighbors(p[1], cols, dfour))
        /\ p[2] \notin Range(w)}

\* M: the least of max(h[u], h[v]) over the boundary pairs of w
LowestCrossing(w, h, cols, dfour) ==
    LET tops == {IF h[p[1]] >= h[p[2]] THEN h[p[1]] ELSE h[p[2]] :
                    p \in BoundaryPairSet(w, cols, dfour)}
    IN  CHOOSE m \in tops : \A t \in tops : m <= t

\* the candidates: the boundary pairs with both heights <= M
CandidateSet(w, h, cols, dfour) ==
    {p \in BoundaryPairSet(w, cols, dfour) :
        /\ h[p[1]] <= LowestCrossing(w, h, cols, dfour)
        /\ h[p[2]] <= LowestCrossing(w, h, cols, dfour)}

\* the place of the pair p in the candidate order: the cells of w as listed,
\* the neighbours of each in the canonical order
CandidateRank(w, p, cols, dfour) ==
    LET nb == CanonicalNeighbors(p[1], cols, dfour)
    IN  Len(nb) * (CHOOSE j \in DOMAIN w : w[j] = p[1])
            + (CHOOSE k \in DOMAIN nb : nb[k] = p[2])

\* whether (h[u] - h[v]) / distance(u, v) of the pair p is at least that of q
PairSlopeAtLeast(h, p, q, cols) ==
    LET dp == h[p[1]] - h[p[2]]
        dq == h[q[1]] - h[q[2]]
        wp == IF (p[1] - p[2]) \in {1, -1, cols, -cols} THEN 2 ELSE 1
        wq == IF (q[1] - q[2]) \in {1, -1, cols, -cols} THEN 2 ELSE 1
    IN  IF dp >= 0 /\ dq >= 0 THEN wp * dp * dp >= wq * dq * dq
        ELSE IF dp < 0 /\ dq < 0 THEN wp * dp * dp <= wq * dq * dq
        ELSE dp >= 0

\* the spill pair the three steps of the loop give for the watershed w
SpillPairOf(w) ==
    get_steepest_spill_pair(heights,
        get_possible_spill_pairs(heights, get_boundary_pairs(w, nx, d4)), nx)

\* C23: for every watershed the loop computes a spill pair for, the set of
\* candidates (boundary pairs with both heights <= M, M the least of
\* max(h[u], h[v]) over its boundary pairs) is not empty, the pair selected
\* is the candidate of maximum (h[u] - h[v]) / distance(u, v), the first
\* such in candidate order, and max(h[from], h[to]) of the pair is M.
C23_SteepestCandidateSelected ==
    (pc = "spill" /\ Len(merged) > 0) =>
        \A k \in DOMAIN merged :
            LET w == merged[k]
                cand == CandidateSet(w, heights, nx, d4)
                s == SpillPairOf(w)
            IN  /\ cand # {}
                /\ s \in cand
                /\ \A q \in cand : PairSlopeAtLeast(heights, s, q, nx)
                /\ \A q \in cand :
                      PairSlopeAtLeast(heights, q, s, nx) =>
                          CandidateRank(w, s, nx, d4) <= CandidateRank(w, q, nx, d4)
                /\ (IF heights[s[1]] >= heights[s[2]] THEN heights[s[1]] ELSE heights[s[2]])
                      = LowestCrossing(w, heights, nx, d4)

\* the loop is about to select the spill pair of a merged watershed that has
\* several candidates of the maximum slope and boundary pairs that are no
\* candidates
C23_SeveralSteepestCandidates ==
    /\ pc = "spill"
    /\ rounds >= 1
    /\ \E k \in DOMAIN merged :
          LET cand == CandidateSet(merged[k], heights, nx, d4)
          IN  /\ cand # BoundaryPairSet(merged[k], nx, d4)
              /\ \E q \in cand \ {SpillPairOf(merged[k])} :
                    PairSlopeAtLeast(heights, q, SpillPairOf(merged[k]), nx)

-----------------------------------------------------------------------------
(* The endpoint labeller *)

RECURSIVE FlowEnd(_, _)
\* the PIT cell reached from the cell i by following the flow field f
FlowEnd(f, i) == IF f[i] = PIT THEN i ELSE FlowEnd(f, f[i])

\* C24: the loop of get_node_endpoints ends, and on return every interior
\* cell carries the PIT cell reached by following the flow from it (a PIT
\* cell carries itself) and every boundary cell carries NONE.
C24_EndpointsLabelled ==
    /\ (pc = "sweep") ~> (pc = "sweep" /\ numInserted = 0)
    /\ [](pc = "spill" =>
            \A i \in DOMAIN terminal :
                IF i \in InteriorCells(ny, nx)
                THEN terminal[i] = FlowEnd(flow, i)
                ELSE terminal[i] = NONE)

\* the labeller has returned for a flow field in which some cell is two steps
\* away from its PIT cell
C24_LabelledTwoStepsAway ==
    /\ pc = "spill"
    /\ \E i \in InteriorCells(ny, nx) :
          /\ flow[i] # PIT
          /\ flow[flow[i]] # PIT
          /\ terminal[i] = FlowEnd(flow, i)

-----------------------------------------------------------------------------
(* The classes of adjacent minima *)

\* the minima the endpoint labeller found: the cells that are their own label
LabelledMinima == {i \in InteriorCells(ny, nx) : terminal[i] = i}

RECURSIVE AdjacentClosure(_, _)
\* the cells of mins joined to a cell of S by a chain of neighbouring cells of mins
AdjacentClosure(S, mins) ==
    LET more == {m \in mins \ S :
                    \E a \in S : m \in Range(CanonicalNeighbors(a, nx, d4))}
    IN  IF more = {} THEN S ELSE AdjacentClosure(S \cup more, mins)

\* C25: the minima of the watersheds combine_minima and combine_watersheds
\* give are a partition of the minima into the connected components of the
\* neighbour graph under the active connectivity, an isolated minimum a class
\* of its own, and each watershed is the union of the local watersheds of
\* the minima of its class.
C25_ClassesAreComponents ==
    (pc = "spill" /\ rounds = 0) =>
        /\ \A m \in LabelledMinima : Occurrences(watersheds, m) = 1
        /\ \A k \in DOMAIN watersheds :
              LET class == Range(watersheds[k]) \cap LabelledMinima
              IN  /\ class # {}
                  /\ \A m \in class : class = AdjacentClosure({m}, LabelledMinima)
                  /\ Range(watersheds[k]) =
                        {i \in InteriorCells(ny, nx) : terminal[i] \in class}
                  /\ Len(watersheds[k]) = Cardinality(Range(watersheds[k]))

\* the watersheds have been combined for minima with a class holding a chain
\* of minima whose ends are no neighbours, in a watershed with further cells
C25_ChainOfMinima ==
    /\ pc = "spill"
    /\ rounds = 0
    /\ \E k \in DOMAIN watersheds :
          LET class == Range(watersheds[k]) \cap LabelledMinima
          IN  /\ Cardinality(class) >= 3
              /\ \E a, b \in class : b \notin Range(CanonicalNeighbors(a, nx, d4)) /\ a # b
              /\ Len(watersheds[k]) > Cardinality(class)

-----------------------------------------------------------------------------
(* Spill heights and traps *)

\* the spill pair of the returned pairs that leaves the watershed i
OwnSpillPair(i) ==
    CHOOSE p \in Range(steepest) : p[1] \in Range(watersheds[i])

\* max(h[from], h[to]) of the spill pair of the watershed i
OwnSpillHeight(i, h) ==
    IF h[OwnSpillPair(i)[1]] >= h[OwnSpillPair(i)[2]]
    THEN h[OwnSpillPair(i)[1]] ELSE h[OwnSpillPair(i)[2]]

\* C26: for the watersheds and spill pairs calculate_watersheds returns,
\* get_spill_heights gives at position i max(h[from], h[to]) of the spill
\* pair of watershed i, get_all_traps gives for watershed i the cells of
\* watershed i of at most that height, every trap holds the from cell and
\* every minimum of its watershed, and the size of a trap is the number of
\* its cells.
C26_TrapsBelowSpillHeight ==
    pc = "watersheds" =>
        LET spill_heights == get_spill_heights(watersheds, heights, steepest, ny, nx)
            traps == get_all_traps(watersheds, heights, spill_heights)
        IN  /\ Len(spill_heights) = Len(watersheds)
            /\ Len(traps) = Len(watersheds)
            /\ \A i \in DOMAIN watersheds :
                  /\ \E p \in Range(steepest) : p[1] \in Range(watersheds[i])
                  /\ spill_heights[i] = OwnSpillHeight(i, heights)
                  /\ Range(traps[i]) = {c \in Range(watersheds[i]) :
                                           heights[c] <= OwnSpillHeight(i, heights)}
                  /\ OwnSpillPair(i)[1] \in Range(traps[i])
                  /\ \A c \in Range(watersheds[i]) : flow[c] = PIT => c \in Range(traps[i])
                  /\ Len(traps[i]) = Cardinality(Range(traps[i]))

-----------------------------------------------------------------------------
(* The landscape flattener *)

\* C27: make_landscape_depressionless sets every cell of the trap of a
\* watershed to the spill height of that watershed taken from the heights
\* before the flattening, leaves every other cell, the domain boundary
\* included, at its height, and lowers no cell.
C27_OnlyTrapCellsRaised ==
    [][(pc = "watersheds" /\ pc' = "flattened") =>
        /\ DOMAIN heights' = DOMAIN heights
        /\ \A c \in DOMAIN heights :
              /\ heights'[c] >= heights[c]
              /\ IF \E i \in DOMAIN watersheds :
                        c \in Range(watersheds[i]) /\ heights[c] <= OwnSpillHeight(i, heights)
                 THEN \A i \in DOMAIN watersheds :
                        c \in Range(watersheds[i]) => heights'[c] = OwnSpillHeight(i, heights)
                 ELSE heights'[c] = heights[c]]_vars

\* the flattener has raised a cell that the fill had left alone, beside an
\* interior cell outside every trap
C27_TrapRaisedBesideFreeCell ==
    /\ pc = "flattened"
    /\ \E c \in Range(Concat(trapList)) :
          /\ heights[c] > input[c]
          /\ \E n \in Range(CanonicalNeighbors(c, nx, FALSE)) : input[n] <= input[c]
    /\ \E c \in InteriorCells(ny, nx) : c \notin Range(Concat(trapList))

-----------------------------------------------------------------------------
(* The wavefront of the accumulation *)

\* the nodes with an edge to the node c in the rewritten graph
Predecessors(c) == {e[1] : e \in {x \in Edges : x[2] = c}}

\* whether every predecessor of the node c has its accumulation
Ready(c) == \A p \in Predecessors(c) : flowAcc[p] > 0

\* the sum of the accumulation of the predecessors of the node c
InflowSum(c) ==
    LET ps == SortedSeq(Predecessors(c))
    IN  SumSeq([k \in DOMAIN ps |-> flowAcc[ps[k]]])

-----------------------------------------------------------------------------
(* Cycle breaking *)

\* the spill graph over the positions of the watersheds wss: a -> b when a
\* pair of pairs leaves the watershed a into the watershed b
SpillGraph(wss, pairs) ==
    {ab \in (DOMAIN wss) \X (DOMAIN wss) :
        \E s \in pairs : s[1] \in Range(wss[ab[1]]) /\ s[2] \in Range(wss[ab[2]])}

\* the watersheds of wss at the positions outside S, in their order
WatershedsOutside(wss, S) ==
    LET kept == SelectSeq([k \in DOMAIN wss |-> k], LAMBDA k : k \notin S)
    IN  [j \in DOMAIN kept |-> wss[kept[j]]]

\* the number of watersheds of the first partition that lie in the cells w
InitialWatershedsIn(w) ==
    Cardinality({AdjacentClosure({terminal[c]}, LabelledMinima) : c \in Range(w)})

\* C30: remove_cycles acts only in a round that merged no mutually spilling
\* pair; it then gives for every cycle of the spill graph one merged
\* watershed, the union of the members of the cycle, removes the spill pairs
\* that leave a member of a cycle and no other, keeps every other watershed
\* and spill pair, and after a collapse the loop takes another round, which
\* computes a spill pair for each merged watershed.
C30_CyclesCollapsed ==
    [][(pc = "spill" /\ rounds' = rounds + 1) =>
        LET G == SpillGraph(watersheds, roundPairs')
            members == {a \in DOMAIN watersheds : OnCycle(a, G)}
            cycles == {CycleOf(a, G) : a \in members}
        IN  /\ \A k \in DOMAIN merged : SpillPairOf(merged[k]) \in roundPairs'
            /\ IF MutuallySpilling(watersheds, roundPairs') # {}
               THEN \A a \in members :
                       Cardinality(CycleOf(a, G)) >= 3 =>
                           /\ \E k \in DOMAIN watersheds' : watersheds'[k] = watersheds[a]
                           /\ \E p \in remaining' : p[1] \in Range(watersheds[a])
               ELSE /\ Len(merged') = Cardinality(cycles)
                    /\ \A c \in cycles : \E k \in DOMAIN merged' :
                          /\ Range(merged'[k]) = UNION {Range(watersheds[b]) : b \in c}
                          /\ Len(merged'[k]) = Cardinality(Range(merged'[k]))
                    /\ remaining' = {p \in roundPairs' :
                                        \A a \in members : p[1] \notin Range(watersheds[a])}
                    /\ watersheds' = WatershedsOutside(watersheds, members) \o merged'
                    /\ members # {} => (Len(merged') > 0 /\ pc' = "spill")]_vars

\* the first round has collapsed a cycle of three or more watersheds and has
\* kept another watershed and its spill pair
C30_CycleCollapsedBesideOthers ==
    /\ pc = "spill"
    /\ rounds = 1
    /\ Len(watersheds) >= 2
    /\ remaining # {}
    /\ \E k \in DOMAIN merged : InitialWatershedsIn(merged[k]) >= 3

====
